---- MODULE Spec2Model ----
(***************************************************************************)
(* Model of the music catalog loader: the schema of model.py (bands,       *)
(* albums, songs on a SQLite engine, one process-wide ORM session) and the  *)
(* script populate.py (load_artist, load_albums, load_tracks and the        *)
(* driver loop followed by one session.commit()).                           *)
(*                                                                          *)
(* One action is one HTTP request of the script together with the code      *)
(* that runs up to the next request.  The catalog API is the environment:  *)
(* each response is drawn from a small set of (status, body) pairs.         *)
(***************************************************************************)
EXTENDS Integers, Sequences, FiniteSets, TLC

VARIABLES
  db,        \* music.db: table name -> set of committed rows
  db0,       \* db as the running process found it after create_all
  runs,      \* executions of populate.py started so far
  fetched,   \* album detail records served by the catalog so far
  pc,        \* position of the process
  err,       \* exception that ended the process, "" when none
  k,         \* index into band_ids of the driver loop
  session,   \* session.new: the staged objects, in the order they were added
  band,      \* load_albums' parameter band: position of the Band in session
  response,  \* the script's last response (status, body)
  items,     \* data['items'] iterated by load_albums
  i,         \* position of load_albums' loop in items
  commits    \* calls of session.commit() by the running process

vars == <<db, db0, runs, fetched, pc, err, k, session, band, response, items, i, commits>>

----------------------------------------------------------------------------
(* Bounds of the exploration *)

MaxRuns == 2      \* executions of the script
MaxItems == 2     \* album summaries in one artist's album list
MaxAlbums == 1    \* album detail records the catalog serves over all runs
MaxTracks == 1    \* track records in one album

----------------------------------------------------------------------------
(* Values *)

\* Python's None, for an unset release_date; a date is <<year, month, day>>
None == << >>

\* a text is a sequence of character codes: 0..9 are the digits
Dash == 10

RECURSIVE Num(_)
Num(ds) == IF ds = << >> THEN 0 ELSE 10 * Num(SubSeq(ds, 1, Len(ds) - 1)) + ds[Len(ds)]

IsDigits(ds) == \A p \in 1..Len(ds) : ds[p] \in 0..9

\* the dash-separated fields of a text
RECURSIVE Fields(_)
Fields(s) ==
  IF \A p \in 1..Len(s) : s[p] # Dash THEN << s >>
  ELSE LET d == CHOOSE p \in 1..Len(s) : s[p] = Dash /\ \A q \in 1..(p - 1) : s[q] # Dash
       IN  << SubSeq(s, 1, d - 1) >> \o Fields(SubSeq(s, d + 1, Len(s)))

IsLeap(y) == (y % 4 = 0 /\ y % 100 # 0) \/ y % 400 = 0

DaysInMonth(y, m) ==
  IF m = 2 THEN (IF IsLeap(y) THEN 29 ELSE 28)
  ELSE IF m \in {4, 6, 9, 11} THEN 30 ELSE 31

\* datetime.strptime(s, '%Y-%m-%d').date(): %Y is four digits, %m is 1..12 and
\* %d is 1..31 in one or two digits, nothing may remain, and the day has to
\* exist in the month.  [ok |-> FALSE] stands for the ValueError.
strptime_date(s) ==
  LET f == Fields(s) IN
  IF /\ Len(f) = 3
     /\ \A p \in 1..3 : IsDigits(f[p])
     /\ Len(f[1]) = 4
     /\ Len(f[2]) \in {1, 2} /\ Num(f[2]) \in 1..12
     /\ Len(f[3]) \in {1, 2} /\ Num(f[3]) \in 1..31
     /\ Num(f[1]) >= 1
     /\ Num(f[3]) <= DaysInMonth(Num(f[1]), Num(f[2]))
  THEN [ok |-> TRUE, date |-> << Num(f[1]), Num(f[2]), Num(f[3]) >>]
  ELSE [ok |-> FALSE, date |-> None]

\* a Python float with millisecond precision: whole seconds and thousandths
ms_floordiv(duration_ms) == [whole |-> duration_ms \div 1000, thousandths |-> 0]

\* duration_ms / 1000.0
ms_to_seconds(duration_ms) ==
  [whole |-> duration_ms \div 1000, thousandths |-> duration_ms % 1000]

----------------------------------------------------------------------------
(* Entities of model.py; an object refers to its owner by the owner's       *)
(* position in session                                                      *)

Band(name) == [kind |-> "Band", name |-> name]

Album(title, owner) ==
  [kind |-> "Album", title |-> title, release_date |-> None, band |-> owner]

Song(title, track_num, length_seconds, owner) ==
  [kind |-> "Song", title |-> title, track_num |-> track_num,
   length_seconds |-> length_seconds, album |-> owner]

----------------------------------------------------------------------------
(* The store: music.db behind the engine of model.py                        *)

Tables == {"bands", "albums", "songs"}

\* no database file yet
NoTables == [t \in {} |-> {}]

\* the engine is SQLite and nothing issues PRAGMA foreign_keys=ON on its
\* connections, so the FOREIGN KEY clauses are created but not enforced
PragmaForeignKeys == FALSE

\* a create_all that rebuilds every table
create_all_rebuild(d) == [t \in Tables |-> {}]

\* Base.metadata.create_all(engine): checkfirst, CREATE TABLE for the missing ones
create_all(d) ==
  [t \in (DOMAIN d) \cup Tables |-> IF t \in DOMAIN d THEN d[t] ELSE {}]

MaxId(rows) ==
  IF rows = {} THEN 0 ELSE CHOOSE m \in {r.id : r \in rows} : \A r \in rows : r.id <= m

Positions(sess, kind) == {p \in 1..Len(sess) : sess[p].kind = kind}

\* how many objects of the kind of sess[p] were added up to p
Ordinal(sess, p) == Cardinality({q \in 1..p : sess[q].kind = sess[p].kind})

\* the integer primary key the INSERT gives sess[p]: objects of one class are
\* inserted in the order they were added, each getting the largest id + 1
primary_key(d, table, sess, p) == MaxId(d[table]) + Ordinal(sess, p)

\* a key read before the INSERT of the owner
stale_key(d, table, sess, owner) == MaxId(d[table])

\* band_id and album_id: the relationship copies the owner's primary key into
\* the row once the owner is inserted
foreign_key(d, table, sess, owner) == primary_key(d, table, sess, owner)

\* no unique index on bands.name
unique_off(d, sess) == TRUE

\* bands.name is unique=True: an INSERT of a name another row has fails
unique_ok(d, sess) ==
  \A p \in Positions(sess, "Band") :
    /\ \A q \in Positions(sess, "Band") : p # q => sess[p].name # sess[q].name
    /\ \A r \in d["bands"] : r.name # sess[p].name

\* the flush of session.commit(): bands, then albums, then songs, the foreign
\* key of a row being the primary key of the object it refers to
flush(d, sess) ==
  [t \in DOMAIN d |->
     IF t = "bands" THEN
       d[t] \cup {[id |-> primary_key(d, "bands", sess, p), name |-> sess[p].name] :
                    p \in Positions(sess, "Band")}
     ELSE IF t = "albums" THEN
       d[t] \cup {[id |-> primary_key(d, "albums", sess, p), title |-> sess[p].title,
                   release_date |-> sess[p].release_date,
                   band_id |-> foreign_key(d, "bands", sess, sess[p].band)] :
                    p \in Positions(sess, "Album")}
     ELSE IF t = "songs" THEN
       d[t] \cup {[id |-> primary_key(d, "songs", sess, p), title |-> sess[p].title,
                   track_num |-> sess[p].track_num,
                   length_seconds |-> sess[p].length_seconds,
                   album_id |-> foreign_key(d, "albums", sess, sess[p].album)] :
                    p \in Positions(sess, "Song")}
     ELSE d[t]]

----------------------------------------------------------------------------
(* The catalog API: what a request can return                               *)

\* the five hardcoded artist ids, in the order of the list
band_ids == << 1, 2, 3, 4, 5 >>

\* the display name of artist a: its own, and for the second artist also
\* the name the first one has
ArtistNames(a) == IF a = band_ids[2] THEN {a, band_ids[1]} ELSE {a}

SeqsUpTo(S, n) == UNION {[1..m -> S] : m \in 0..n}

ErrorBody == [error |-> "error"]

\* a response whose body is not JSON: response.json() raises ValueError
NotJson == [status |-> 500, json |-> FALSE, body |-> ErrorBody]

\* the script has no response (yet, or any more)
NoResponse == [status |-> 0, json |-> FALSE, body |-> ErrorBody]

\* what a request returns: a success with one of the bodies, a success or a
\* failure with an error body, a failure that is no JSON, and a failure whose
\* body is complete all the same
Responses(bodies, complete) ==
  {[status |-> 200, json |-> TRUE, body |-> b] : b \in bodies}
    \cup {[status |-> st, json |-> TRUE, body |-> ErrorBody] : st \in {200, 404}}
    \cup {NotJson}
    \cup {[status |-> 500, json |-> TRUE, body |-> b] : b \in complete}

ArtistResponses(a) == Responses({[name |-> n] : n \in ArtistNames(a)}, {[name |-> a]})

\* an album summary of artist a: its own release or a collaboration
AlbumItems(a) == {[artists |-> l, href |-> "album"] : l \in {<< a >>, << a, 0 >>}}

\* a filter that lets two artists through
is_collaboration_above_two(album_item) == Len(album_item.artists) > 2

\* len(album_item['artists']) > 1
is_collaboration(album_item) == Len(album_item.artists) > 1

Solo(l) == {p \in 1..Len(l) : ~is_collaboration(l[p])}

AlbumListResponses(a) ==
  Responses({[items |-> l] : l \in {m \in SeqsUpTo(AlbumItems(a), MaxItems) :
                                      Cardinality(Solo(m)) <= MaxAlbums - fetched}},
            {[items |-> << >>]})

Text_1995_03_14 == << 1, 9, 9, 5, Dash, 0, 3, Dash, 1, 4 >>
Text_1995_02_30 == << 1, 9, 9, 5, Dash, 0, 2, Dash, 3, 0 >>
Text_1995_03 == << 1, 9, 9, 5, Dash, 0, 3 >>
Text_1995 == << 1, 9, 9, 5 >>

\* (release_date_precision, release_date) pairs that load_albums accepts
ReleaseDates ==
  {[precision |-> "day", text |-> Text_1995_03_14],
   [precision |-> "month", text |-> Text_1995_03],
   [precision |-> "year", text |-> Text_1995]}

\* day precision with a day that does not exist, and with a text that is no
\* YYYY-MM-DD
BadReleaseDates ==
  {[precision |-> "day", text |-> Text_1995_02_30],
   [precision |-> "day", text |-> Text_1995_03]}

TrackRecords ==
  {[name |-> "one", track_number |-> 1, duration_ms |-> 245000],
   [name |-> "two", track_number |-> 2, duration_ms |-> 61500]}

\* a track record without its duration
BadTrack == [name |-> "three", track_number |-> 3]

\* track lists: complete records, or complete records up to a bad one (the
\* records after it are never read)
TrackLists ==
  SeqsUpTo(TrackRecords, MaxTracks)
    \cup {Append(l, BadTrack) : l \in SeqsUpTo(TrackRecords, MaxTracks - 1)}

AlbumBody(r, l) ==
  [name |-> "album", release_date_precision |-> r.precision, release_date |-> r.text,
   tracks |-> [items |-> l]]

AlbumResponses ==
  Responses(
    {AlbumBody(r, l) : r \in ReleaseDates, l \in TrackLists}
    \cup {AlbumBody(r, << >>) : r \in BadReleaseDates}
    \cup {[name |-> "album", release_date_precision |-> r.precision,
           release_date |-> r.text] : r \in {q \in ReleaseDates : q.precision = "day"}},
    {AlbumBody(r, << >>) : r \in {q \in ReleaseDates : q.precision = "day"}})

----------------------------------------------------------------------------
(* populate.py                                                              *)

LoadErrors == {"ConnectionError", "ValueError", "KeyError"}

\* an exception nothing catches: the process ends with it
Raise(e) == pc' = "aborted" /\ err' = e

\* a precision test the wrong way round
release_date_inverted(album_data) ==
  IF album_data.release_date_precision # "day"
  THEN strptime_date(album_data.release_date)
  ELSE [ok |-> TRUE, date |-> None]

\* lines 36-37: the date of a day-precision record, None otherwise
release_date(album_data) ==
  IF album_data.release_date_precision = "day"
  THEN strptime_date(album_data.release_date)
  ELSE [ok |-> TRUE, date |-> None]

\* load_tracks: one Song per record, in order, until a record lacks a field
RECURSIVE load_tracks(_, _, _)
load_tracks(sess, album, track_list) ==
  IF track_list = << >> THEN [session |-> sess, err |-> ""]
  ELSE LET track_data == Head(track_list) IN
       IF {"name", "track_number", "duration_ms"} \subseteq DOMAIN track_data
       THEN load_tracks(
              Append(sess, Song(track_data.name, track_data.track_number,
                                ms_to_seconds(track_data.duration_ms), album)),
              album, Tail(track_list))
       ELSE [session |-> sess, err |-> "KeyError"]

\* the body of load_albums' loop for one album detail record; an object is
\* staged where the code calls session.add
load_album(sess, owner, album_data) ==
  IF ~({"name", "release_date_precision"} \subseteq DOMAIN album_data)
  THEN [session |-> sess, err |-> "KeyError"]
  ELSE LET d == release_date(album_data)
           album == [Album(album_data.name, owner) EXCEPT !.release_date = d.date]
           staged == Append(sess, album)
       IN  IF ~d.ok THEN [session |-> sess, err |-> "ValueError"]
           ELSE IF "tracks" \notin DOMAIN album_data
           THEN [session |-> staged, err |-> "KeyError"]
           ELSE load_tracks(staged, Len(staged), album_data.tracks.items)

Locals == <<band, response, items, i>>

\* python populate.py: importing model creates the engine, the session and
\* the missing tables
ImportModel ==
  /\ pc \in {"start", "done", "aborted"}
  /\ runs < MaxRuns
  /\ runs' = runs + 1
  /\ db' = create_all(db)
  /\ db0' = db'
  /\ pc' = "driver" /\ err' = "" /\ k' = 1
  /\ session' = << >> /\ commits' = 0
  /\ band' = 0 /\ response' = NoResponse /\ items' = << >> /\ i' = 0
  /\ UNCHANGED fetched

\* requests.get raises: no response arrives
RequestRaises ==
  /\ \/ pc = "driver" /\ k <= Len(band_ids)
     \/ pc = "load_albums"
     \/ pc = "album_item" /\ i <= Len(items) /\ ~is_collaboration(items[i])
  /\ Raise("ConnectionError")
  /\ UNCHANGED <<db, db0, runs, fetched, k, session, commits, Locals>>

\* load_artist up to its call of load_albums
LoadArtist ==
  /\ pc = "driver" /\ k <= Len(band_ids)
  /\ \E r \in ArtistResponses(band_ids[k]) :
       /\ response' = r
       /\ IF ~r.json THEN Raise("ValueError") /\ UNCHANGED <<session, band>>
          ELSE IF "name" \notin DOMAIN r.body
          THEN Raise("KeyError") /\ UNCHANGED <<session, band>>
          ELSE /\ session' = Append(session, Band(r.body.name))
               /\ band' = Len(session) + 1
               /\ pc' = "load_albums" /\ err' = err
  /\ UNCHANGED <<db, db0, runs, fetched, k, items, i, commits>>

\* load_albums up to its loop
LoadAlbums ==
  /\ pc = "load_albums"
  /\ \E r \in AlbumListResponses(band_ids[k]) :
       /\ response' = r
       /\ IF ~r.json THEN Raise("ValueError") /\ UNCHANGED <<items, i>>
          ELSE IF "items" \notin DOMAIN r.body
          THEN Raise("KeyError") /\ UNCHANGED <<items, i>>
          ELSE items' = r.body.items /\ i' = 1 /\ pc' = "album_item" /\ err' = err
  /\ UNCHANGED <<db, db0, runs, fetched, k, session, band, commits>>

\* the loop meets a collaboration: continue
SkipAlbum ==
  /\ pc = "album_item" /\ i <= Len(items)
  /\ is_collaboration(items[i])
  /\ i' = i + 1
  /\ UNCHANGED <<db, db0, runs, fetched, pc, err, k, session, band, response, items, commits>>

\* the loop fetches one album, stages it and loads its tracks
LoadAlbum ==
  /\ pc = "album_item" /\ i <= Len(items)
  /\ ~is_collaboration(items[i])
  /\ fetched' = fetched + 1
  /\ \E r \in AlbumResponses :
       /\ response' = r
       /\ IF ~r.json THEN Raise("ValueError") /\ UNCHANGED <<session, i>>
          ELSE LET got == load_album(session, band, r.body) IN
               /\ session' = got.session
               /\ IF got.err # "" THEN Raise(got.err) /\ i' = i
                  ELSE i' = i + 1 /\ UNCHANGED <<pc, err>>
  /\ UNCHANGED <<db, db0, runs, k, band, items, commits>>

\* load_albums and load_artist return: the driver takes the next id
NextArtist ==
  /\ pc = "album_item" /\ i > Len(items)
  /\ pc' = "driver" /\ k' = k + 1
  /\ band' = 0 /\ response' = NoResponse /\ items' = << >> /\ i' = 0
  /\ UNCHANGED <<db, db0, runs, fetched, err, session, commits>>

\* a commit in a finally clause
CommitInFinally ==
  /\ commits = 0
  /\ (pc = "driver" /\ k > Len(band_ids)) \/ (pc = "aborted" /\ err \in LoadErrors)

\* a commit one artist early
CommitBeforeLast == pc = "driver" /\ k >= Len(band_ids)

\* the loop over band_ids is over
CommitReached == pc = "driver" /\ k > Len(band_ids)

\* session.commit(): all staged rows in one transaction, or IntegrityError and
\* a rollback
Commit ==
  /\ CommitReached
  /\ commits' = commits + 1
  /\ IF unique_ok(db, session)
     THEN db' = flush(db, session) /\ pc' = "done" /\ err' = err
     ELSE db' = db /\ pc' = "aborted" /\ err' = "IntegrityError"
  /\ session' = << >>
  /\ UNCHANGED <<db0, runs, fetched, k, Locals>>

Init ==
  /\ db = NoTables /\ db0 = NoTables
  /\ runs = 0 /\ fetched = 0
  /\ pc = "start" /\ err = "" /\ k = 0
  /\ session = << >> /\ commits = 0
  /\ band = 0 /\ response = NoResponse /\ items = << >> /\ i = 0

Next ==
  \/ ImportModel
  \/ RequestRaises
  \/ LoadArtist
  \/ LoadAlbums
  \/ SkipAlbum
  \/ LoadAlbum
  \/ NextArtist
  \/ Commit

Spec == Init /\ [][Next]_vars

----------------------------------------------------------------------------
(* Manual administration of the store, outside the script                   *)

\* DELETE FROM bands WHERE id = b.id; ON DELETE CASCADE acts only where the
\* connection enforces foreign keys
delete_band(d, b) ==
  IF PragmaForeignKeys
  THEN LET gone == {a \in d["albums"] : a.band_id = b.id} IN
       [d EXCEPT !["bands"] = @ \ {b},
                 !["albums"] = @ \ gone,
                 !["songs"] = {s \in @ : \A a \in gone : s.album_id # a.id}]
  ELSE [d EXCEPT !["bands"] = @ \ {b}]

\* DELETE FROM albums WHERE id = a.id
delete_album(d, a) ==
  IF PragmaForeignKeys
  THEN [d EXCEPT !["albums"] = @ \ {a},
                 !["songs"] = {s \in @ : s.album_id # a.id}]
  ELSE [d EXCEPT !["albums"] = @ \ {a}]

DeleteBand ==
  /\ pc \in {"done", "aborted"}
  /\ \E b \in db["bands"] : db' = delete_band(db, b)
  /\ UNCHANGED <<db0, runs, fetched, pc, err, k, session, commits, Locals>>

DeleteAlbum ==
  /\ pc \in {"done", "aborted"}
  /\ \E a \in db["albums"] : db' = delete_album(db, a)
  /\ UNCHANGED <<db0, runs, fetched, pc, err, k, session, commits, Locals>>

NextAdmin == Next \/ DeleteBand \/ DeleteAlbum

SpecAdmin == Init /\ [][NextAdmin]_vars

----------------------------------------------------------------------------
(* Properties                                                               *)

\* every albums row has its bands row and every songs row its albums row
NoOrphans(d) ==
  /\ \A a \in d["albums"] : \E b \in d["bands"] : b.id = a.band_id
  /\ \A s \in d["songs"] : \E a \in d["albums"] : a.id = s.album_id

\* the last position before p that holds an object of the kind, 0 if none
LastOf(sess, p, kind) ==
  LET before == {q \in 1..(p - 1) : sess[q].kind = kind} IN
  IF before = {} THEN 0 ELSE CHOOSE m \in before : \A q \in before : q <= m

\* C1: nothing is persisted before the commit, and a run ended by a failed
\* request or parse step has issued no commit and leaves the store as the run
\* found it
C1_NothingPersistedOnFailure ==
  /\ commits = 0 => db = db0
  /\ err \in LoadErrors => pc = "aborted" /\ commits = 0 /\ db = db0

\* artist 3's profile lacks its name after an Album and a Song were staged
C1_Witness ==
  /\ pc = "aborted" /\ err = "KeyError" /\ k = 3
  /\ Positions(session, "Album") # {} /\ Positions(session, "Song") # {}
  /\ Cardinality(Positions(session, "Band")) = 2

\* C2: an album summary with two or more artists stages nothing and fetches
\* nothing, and the loop goes on to the next summary
C2_CollaborationSkipped ==
  [][(pc = "album_item" /\ i <= Len(items) /\ Len(items[i].artists) >= 2)
       => /\ session' = session /\ fetched' = fetched
          /\ pc' = "album_item" /\ err' = err
          /\ items' = items /\ i' = i + 1]_vars

\* the first summary was a collaboration and the second one was staged
C2_Witness ==
  /\ pc = "album_item" /\ i = 3
  /\ Len(items[1].artists) = 2 /\ Len(items[2].artists) = 1
  /\ Cardinality(Positions(session, "Album")) = 1
  /\ Cardinality(Positions(session, "Band")) = 1

IsYMDText(s) ==
  /\ Len(s) = 10 /\ s[5] = Dash /\ s[8] = Dash
  /\ \A p \in {1, 2, 3, 4, 6, 7, 9, 10} : s[p] \in 0..9

YMD(s) ==
  << 1000 * s[1] + 100 * s[2] + 10 * s[3] + s[4], 10 * s[6] + s[7], 10 * s[9] + s[10] >>

\* C3: the Album staged for a record has no release_date unless the precision
\* is "day", and then the date its YYYY-MM-DD text names
C3_DatePrecision ==
  [][(fetched' = fetched + 1 /\ Len(session') > Len(session))
       => LET album_data == response'.body
              album == session'[Len(session) + 1] IN
          /\ album.kind = "Album"
          /\ album_data.release_date_precision # "day" => album.release_date = None
          /\ (album_data.release_date_precision = "day"
                /\ IsYMDText(album_data.release_date))
               => album.release_date = YMD(album_data.release_date)]_vars

\* a day-precision record of 1995-03-14 was staged with that date
C3_Witness ==
  /\ pc = "album_item" /\ response.status = 200
  /\ "release_date" \in DOMAIN response.body
  /\ response.body.release_date_precision = "day"
  /\ response.body.release_date = Text_1995_03_14
  /\ \E p \in Positions(session, "Album") : session[p].release_date = << 1995, 3, 14 >>

\* C4: no committed Album or Song lacks its owner's row
C4_ReferentialIntegrity == Tables \subseteq DOMAIN db => NoOrphans(db)

\* a commit stored an Album and a Song
C4_Witness ==
  /\ pc = "done" /\ db["albums"] # {} /\ db["songs"] # {}
  /\ Cardinality(db["bands"]) = Len(band_ids)

DuplicateName(d, sess) ==
  \E p \in Positions(sess, "Band") :
    \/ \E q \in Positions(sess, "Band") : q # p /\ sess[q].name = sess[p].name
    \/ \E r \in d["bands"] : r.name = sess[p].name

\* C5: a commit with a Band whose name a committed or a staged Band has fails
\* with the storage error and changes nothing in the store
C5_DuplicateNameRejected ==
  [][(commits' = commits + 1 /\ DuplicateName(db, session))
       => (pc' = "aborted" /\ err' = "IntegrityError" /\ db' = db)]_vars

\* the second run's commit was rejected, the first run's rows are there
C5_Witness ==
  /\ runs = 2 /\ pc = "aborted" /\ err = "IntegrityError"
  /\ Cardinality(db["bands"]) = Len(band_ids) /\ db["albums"] # {}
  /\ db = db0

\* the step is one that received a response
Responded ==
  /\ \/ pc = "driver" /\ k <= Len(band_ids)
     \/ pc = "load_albums"
     \/ pc = "album_item" /\ i <= Len(items) /\ Len(items[i].artists) <= 1
  /\ err' # "ConnectionError"

\* the fields the code reads of the response to the request made at pc
LacksField(at, r) ==
  IF at = "driver" THEN "name" \notin DOMAIN r.body
  ELSE IF at = "load_albums" THEN "items" \notin DOMAIN r.body
  ELSE \/ ~({"name", "release_date_precision", "release_date", "tracks"}
              \subseteq DOMAIN r.body)
       \/ \E j \in 1..Len(r.body.tracks.items) :
            ~({"name", "track_number", "duration_ms"}
                \subseteq DOMAIN r.body.tracks.items[j])

\* C6: a response with a non-success status or without an expected field ends
\* the run with an error and stages nothing
C6_UpstreamFailureAborts ==
  [][(Responded /\ (response'.status # 200 \/ ~response'.json
                      \/ LacksField(pc, response')))
       => (pc' = "aborted" /\ err' \in LoadErrors /\ session' = session)]_vars

\* C7: after a Band or an Album row is removed no row refers to a missing owner
C7_CascadingDelete ==
  [][(/\ Tables \subseteq DOMAIN db
      /\ \/ db'["bands"] # db["bands"] /\ db'["bands"] \subseteq db["bands"]
         \/ db'["albums"] # db["albums"] /\ db'["albums"] \subseteq db["albums"])
       => NoOrphans(db')]_vars

\* C8: create_all on a store that has the three tables raises nothing and
\* changes neither tables nor rows
C8_CreateAllIdempotent ==
  [][(runs' = runs + 1 /\ Tables \subseteq DOMAIN db)
       => (db' = db /\ err' = "" /\ pc' = "driver")]_vars

\* the second run started on the rows the first one committed
C8_Witness ==
  /\ runs = 2 /\ pc = "driver" /\ k = 1 /\ commits = 0
  /\ Cardinality(db["bands"]) = Len(band_ids) /\ db["songs"] # {}

\* C9: Bands are staged in the order of band_ids, an Album after its Band and
\* before the next Band, a Song after its Album and before the next Album or
\* Band, and the one commit comes after the last artist
C9_Ordering ==
  /\ \A p \in 1..Len(session) :
       /\ session[p].kind = "Band" =>
            /\ Ordinal(session, p) <= Len(band_ids)
            /\ session[p].name \in ArtistNames(band_ids[Ordinal(session, p)])
       /\ session[p].kind = "Album" =>
            session[p].band > 0 /\ session[p].band = LastOf(session, p, "Band")
       /\ session[p].kind = "Song" =>
            /\ session[p].album = LastOf(session, p, "Album")
            /\ session[p].album > LastOf(session, p, "Band")
  /\ pc = "driver" => Cardinality(Positions(session, "Band")) = k - 1
  /\ pc \in {"load_albums", "album_item"} =>
       /\ Cardinality(Positions(session, "Band")) = k
       /\ band = LastOf(session, Len(session) + 1, "Band")
  /\ commits <= 1
  /\ commits = 1 => k = Len(band_ids) + 1 /\ pc \in {"done", "aborted"}
  /\ pc = "done" => commits = 1

\* all five artists are staged, the third one with an Album and a Song, and
\* the commit is due
C9_Witness ==
  /\ pc = "driver" /\ k = Len(band_ids) + 1 /\ commits = 0
  /\ \E p \in Positions(session, "Song") :
       /\ session[p].album = p - 1
       /\ session[p - 1].band = 3
  /\ Len(session) = Len(band_ids) + 2

\* C10: load_tracks stages one Song per track record, in order and nothing
\* else, each owned by the album with the record's name, track_number and
\* duration_ms / 1000
C10_TrackMapping ==
  [][(/\ fetched' = fetched + 1 /\ Len(session') > Len(session)
      /\ "tracks" \in DOMAIN response'.body)
       => LET track_list == response'.body.tracks.items
              album == Len(session) + 1 IN
          (\A j \in 1..Len(track_list) : "duration_ms" \in DOMAIN track_list[j])
            => /\ Len(session') = album + Len(track_list)
               /\ SubSeq(session', 1, Len(session)) = session
               /\ session'[album].kind = "Album"
               /\ err' = ""
               /\ \A j \in 1..Len(track_list) :
                    LET song == session'[album + j] IN
                    /\ song.kind = "Song" /\ song.album = album
                    /\ song.title = track_list[j].name
                    /\ song.track_num = track_list[j].track_number
                    /\ song.length_seconds.thousandths \in 0..999
                    /\ 1000 * song.length_seconds.whole + song.length_seconds.thousandths
                         = track_list[j].duration_ms
                    /\ track_list[j].duration_ms = 245000 =>
                         song.length_seconds = [whole |-> 245, thousandths |-> 0]]_vars

\* a record of 61500 ms was staged as 61.5 seconds
C10_Witness ==
  /\ pc = "album_item" /\ "tracks" \in DOMAIN response.body
  /\ Len(response.body.tracks.items) = MaxTracks
  /\ \E p \in Positions(session, "Song") :
       /\ session[p].length_seconds = [whole |-> 61, thousandths |-> 500]
       /\ session[p].track_num = 2

====
